---- MODULE Spec2Model ----
(***************************************************************************)
(* KEC-HUB backend: eligibility filtering, the write-boundary              *)
(* normalisation of department allow-lists, and the learned-score ranking  *)
(* of opportunities (backend/app/routers, backend/ml).                     *)
(*                                                                         *)
(* Strings whose case or whitespace matters are sequences of one-character *)
(* strings, so that lower() and strip() are computed, not assumed.         *)
(* Optional numeric profile fields are records [k, v] with k one of        *)
(* "none" (absent / None), "num" (a number v) and "bad" (a value on which  *)
(* float() / int() raises ValueError).                                     *)
(***************************************************************************)
EXTENDS Integers, Sequences, FiniteSets, TLC

VARIABLES placements, instructions, notes, events, registrations, model,
          hashseed, resp, artifact, boot, ml_feedback

vars == <<placements, instructions, notes, events, registrations, model,
          hashseed, resp, artifact, boot, ml_feedback>>

(***************************************************************************)
(* Bounds of the model.                                                    *)
(***************************************************************************)
MaxPlacements == 2
MaxRecords == 2
MaxEvents == 1
MaxRegistrations == 2
MaxOps == 3
MaxFeedback == 2
MaxMarks == 3
MaxRounds == 3

\* the import of ml.predict has completed: the routers can be called
Serving == boot["server"].pc = "serving"

(***************************************************************************)
(* str.lower() and str.strip() on character sequences.                     *)
(***************************************************************************)
LowerChar(ch) ==
    CASE ch = "A" -> "a"
      [] ch = "C" -> "c"
      [] ch = "E" -> "e"
      [] ch = "L" -> "l"
      [] ch = "M" -> "m"
      [] ch = "P" -> "p"
      [] ch = "S" -> "s"
      [] ch = "Y" -> "y"
      [] OTHER -> ch

Lower(s) == [i \in 1..Len(s) |-> LowerChar(s[i])]

IsSpace(ch) == ch = " "

RECURSIVE LStrip(_)
LStrip(s) ==
    IF s = <<>> THEN <<>>
    ELSE IF IsSpace(Head(s)) THEN LStrip(Tail(s)) ELSE s

RECURSIVE RStrip(_)
RStrip(s) ==
    IF s = <<>> THEN <<>>
    ELSE IF IsSpace(s[Len(s)]) THEN RStrip(SubSeq(s, 1, Len(s) - 1)) ELSE s

Strip(s) == RStrip(LStrip(s))

\* str.split(","): the pieces between commas, empty pieces included
RECURSIVE SplitComma(_, _)
SplitComma(s, cur) ==
    IF s = <<>> THEN <<cur>>
    ELSE IF Head(s) = "," THEN <<cur>> \o SplitComma(Tail(s), <<>>)
    ELSE SplitComma(Tail(s), Append(cur, Head(s)))

Range(f) == {f[i] : i \in DOMAIN f}

\* the sentinel strings "all" and "*" of the set literal {"all", "*"}
Sentinels == {<<"a", "l", "l">>, <<"*">>}

NonBlank(d) == Strip(d) # <<>>

StripEach(seq) == [i \in 1..Len(seq) |-> Strip(seq[i])]

LowerEach(seq) == [i \in 1..Len(seq) |-> Lower(seq[i])]

(***************************************************************************)
(* management.py: _normalize_allowed_departments, _parse_departments_csv   *)
(***************************************************************************)
NormalizeSentinelCaseSensitive(raw) ==
    LET allowed == StripEach(SelectSeq(raw, NonBlank))
        kept == IF \E i \in 1..Len(allowed) : allowed[i] \in Sentinels
                THEN <<>> ELSE allowed
    IN  [allowed |-> kept, lower |-> LowerEach(kept)]

_normalize_allowed_departments(raw) ==
    LET allowed == StripEach(SelectSeq(raw, NonBlank))
        kept == IF \E i \in 1..Len(allowed) : Lower(allowed[i]) \in Sentinels
                THEN <<>> ELSE allowed
    IN  [allowed |-> kept, lower |-> LowerEach(kept)]

_parse_departments_csv(raw) ==
    LET s == Strip(raw)
    IN  IF s = <<>> THEN <<>>
        ELSE IF Lower(s) \in Sentinels THEN << <<"a", "l", "l">> >>
        ELSE StripEach(SelectSeq(SplitComma(s, <<>>), NonBlank))

\* events.py create_event, lines 88-91: the same normalisation, written inline
EventNormalize(raw) ==
    LET allowed == StripEach(SelectSeq(raw, NonBlank))
        kept == IF \E i \in 1..Len(allowed) : Lower(Strip(allowed[i])) \in Sentinels
                THEN <<>> ELSE allowed
    IN  [allowed |-> kept, lower |-> LowerEach(kept)]

(***************************************************************************)
(* Optional numbers: payload and profile fields that may be None.          *)
(***************************************************************************)
NoneV == [k |-> "none", v |-> 0]

Num(n) == [k |-> "num", v |-> n]

BadV == [k |-> "bad", v |-> 0]

(***************************************************************************)
(* Administrator inputs.                                                   *)
(***************************************************************************)
DeptCS == <<"C", "S">>

DeptCSPadded == <<" ", "C", "S", " ">>

Deptee == <<"e", "e">>

SentAllMixed == <<"A", "l", "l">>

SentALLPadded == <<" ", "A", "L", "L", " ">>

SentStar == <<"*">>

BlankEntry == <<" ">>

\* payload.allowedDepartments of the JSON create requests
RawDeptLists ==
    { <<>>, <<DeptCS>>, <<DeptCSPadded>>, <<Deptee, DeptCS>>, <<BlankEntry, Deptee>>,
      <<SentAllMixed>>, <<DeptCS, SentALLPadded>>, <<SentStar, Deptee>>, <<BlankEntry>> }

\* the allowedDepartments form field of the note upload, a comma-separated string
RawDeptCsvs ==
    { <<"a", "l", "l">>, <<>>, <<" ", "A", "L", "L", " ">>, <<"*">>,
      <<"C", "S", ",", "e", "e">>, <<"C", "S", ",", " ", ",", " ", "e", "e", " ">>,
      <<"C", "S", ",", "A", "l", "l">>, <<"e", "e", ",", " ", "*">> }

MinCgpaInputs == {NoneV, Num(7)}

MaxArrearsInputs == {NoneV, Num(1)}

SkillPy == <<"p", "y">>

SkillPyUpper == <<" ", "P", "Y">>

SkillMl == <<"m", "l">>

\* the labels of payload.resources
ResourceInputs == { <<>>, <<SkillPy>>, <<SkillPyUpper, SkillMl>> }

TotalRecords == Len(placements) + Len(instructions) + Len(notes) + Len(events)

(***************************************************************************)
(* The create handlers.  ok stands for the handler's precondition checks   *)
(* (allowed e-mail domain, database connected, role, staff user found).    *)
(***************************************************************************)
PlacementDoc(id, raw, minCgpa, maxArrears, resources) ==
    LET n == _normalize_allowed_departments(raw)
    IN  [ id |-> id,
          allowedDepartments |-> n.allowed,
          allowedDepartmentsLower |-> n.lower,
          minCgpa |-> minCgpa,
          maxArrears |-> maxArrears,
          resources |-> resources,
          staffEmail |-> "staff1",
          rounds |-> <<>> ]

create_placement_notice(ok, raw, minCgpa, maxArrears, resources) ==
    /\ Len(placements) < MaxPlacements
    /\ TotalRecords < MaxRecords
    /\ IF ok
       THEN placements' = Append(placements,
                PlacementDoc(Len(placements) + 1, raw, minCgpa, maxArrears, resources))
       ELSE UNCHANGED placements
    /\ resp' = [op |-> "create_placement_notice", success |-> ok, raw |-> raw]
    /\ UNCHANGED <<instructions, notes, events, registrations, model, hashseed, artifact, boot, ml_feedback>>

create_management_instruction(ok, raw) ==
    /\ TotalRecords < MaxRecords
    /\ IF ok
       THEN LET n == _normalize_allowed_departments(raw)
            IN  instructions' = Append(instructions,
                    [ id |-> Len(instructions) + 1,
                      allowedDepartments |-> n.allowed,
                      allowedDepartmentsLower |-> n.lower ])
       ELSE UNCHANGED instructions
    /\ resp' = [op |-> "create_management_instruction", success |-> ok, raw |-> raw]
    /\ UNCHANGED <<placements, notes, events, registrations, model, hashseed, artifact, boot, ml_feedback>>

upload_management_note(ok, csv) ==
    /\ TotalRecords < MaxRecords
    /\ IF ok
       THEN LET n == _normalize_allowed_departments(_parse_departments_csv(csv))
            IN  notes' = Append(notes,
                    [ id |-> Len(notes) + 1,
                      allowedDepartments |-> n.allowed,
                      allowedDepartmentsLower |-> n.lower ])
       ELSE UNCHANGED notes
    /\ resp' = [op |-> "upload_management_note", success |-> ok, raw |-> csv]
    /\ UNCHANGED <<placements, instructions, events, registrations, model, hashseed, artifact, boot, ml_feedback>>

create_event(ok, manager, raw) ==
    /\ Len(events) < MaxEvents
    /\ TotalRecords < MaxRecords
    /\ IF ok
       THEN LET n == EventNormalize(raw)
            IN  events' = Append(events,
                    [ id |-> Len(events) + 1,
                      managerEmail |-> manager,
                      allowedDepartments |-> n.allowed,
                      allowedDepartmentsLower |-> n.lower ])
       ELSE UNCHANGED events
    /\ resp' = [op |-> "create_event", success |-> ok, raw |-> raw]
    /\ UNCHANGED <<placements, instructions, notes, registrations, model, hashseed, artifact, boot, ml_feedback>>

(***************************************************************************)
(* ml/features.py                                                          *)
(***************************************************************************)
clean_skills(skills) == {Strip(Lower(skills[i])) : i \in 1..Len(skills)}

RECURSIVE Gcd(_, _)
Gcd(a, b) == IF b = 0 THEN a ELSE Gcd(b, a % b)

\* the float n / d, kept exact as a reduced fraction
Frac(n, d) == LET g == Gcd(n, d) IN [n |-> n \div g, d |-> d \div g]

\* a variant that divides by the number of the student's skills
SkillMatchOverStudent(student_skills, opp_skills) ==
    IF student_skills = <<>> \/ opp_skills = <<>> THEN Frac(0, 1)
    ELSE LET s_set == clean_skills(student_skills)
             o_set == clean_skills(opp_skills)
         IN  Frac(Cardinality(s_set \cap o_set), Cardinality(s_set))

skill_match(student_skills, opp_skills) ==
    IF student_skills = <<>> \/ opp_skills = <<>> THEN Frac(0, 1)
    ELSE LET s_set == clean_skills(student_skills)
             o_set == clean_skills(opp_skills)
         IN  IF o_set = {} THEN Frac(0, 1)
             ELSE Frac(Cardinality(s_set \cap o_set), Cardinality(o_set))

\* dict.get(key, default) on an optional field
GetOr(field, default) == IF field.k = "none" THEN Num(default) ELSE field

\* int(x) / float(x) raise ValueError on a malformed value
FeaturesRaise(student, opportunity) ==
    \/ student.year.k = "bad"
    \/ opportunity.min_year.k = "bad"
    \/ student.resume_score.k = "bad"

\* a variant that trims the branches before comparing them
BuildFeaturesBranchTrimmed(student, opportunity) ==
    << skill_match(student.skills, opportunity.required_skills),
       IF Lower(Strip(student.branch)) = Lower(Strip(opportunity.branch)) THEN 1 ELSE 0,
       IF GetOr(student.year, 0).v >= GetOr(opportunity.min_year, 0).v THEN 1 ELSE 0,
       GetOr(student.resume_score, 500).v >>

\* a variant whose absent min_year is 1
BuildFeaturesMinYearOne(student, opportunity) ==
    << skill_match(student.skills, opportunity.required_skills),
       IF Lower(student.branch) = Lower(opportunity.branch) THEN 1 ELSE 0,
       IF GetOr(student.year, 0).v >= GetOr(opportunity.min_year, 1).v THEN 1 ELSE 0,
       GetOr(student.resume_score, 500).v >>

\* [skill_match, branch match, year match, resume_score]; resume in thousandths
build_features(student, opportunity) ==
    << skill_match(student.skills, opportunity.required_skills),
       IF Lower(student.branch) = Lower(opportunity.branch) THEN 1 ELSE 0,
       IF GetOr(student.year, 0).v >= GetOr(opportunity.min_year, 0).v THEN 1 ELSE 0,
       GetOr(student.resume_score, 500).v >>

(***************************************************************************)
(* ml/predict.py.  The loaded classifier is one of a few artifacts; its    *)
(* predict_proba is a probability in units of 1/10000, or raises.          *)
(***************************************************************************)
ProbUnit == 10000

Clip(x) == IF x < 0 THEN 0 ELSE IF x > ProbUnit THEN ProbUnit ELSE x

ModelArtifacts ==
    { [raises |-> FALSE, bias |-> 1005, wSkill |-> 4000, wDept |-> 1500,
       wYear |-> 1510, wResume |-> 2000],
      [raises |-> FALSE, bias |-> 4996, wSkill |-> 8, wDept |-> 0,
       wYear |-> 0, wResume |-> 0],
      [raises |-> FALSE, bias |-> -3000, wSkill |-> 20000, wDept |-> 0,
       wYear |-> 0, wResume |-> 0],
      [raises |-> TRUE, bias |-> 0, wSkill |-> 0, wDept |-> 0,
       wYear |-> 0, wResume |-> 0] }

PredictRaises(m, features) == m.raises

predict_proba(m, features) ==
    Clip(m.bias + (m.wSkill * features[1].n) \div features[1].d
                + m.wDept * features[2] + m.wYear * features[3]
                + (m.wResume * features[4]) \div 1000)

\* round(float(score), 3): ten-thousandths to thousandths, ties to even
Round3(p) ==
    LET q == p \div 10
        r == p % 10
    IN  IF r > 5 THEN q + 1
        ELSE IF r < 5 THEN q
        ELSE IF q % 2 = 0 THEN q ELSE q + 1

FallbackScore == 5000

\* a variant whose except branch falls back to zero
ScoreOfFallbackZero(m, features) ==
    IF PredictRaises(m, features) THEN 0 ELSE predict_proba(m, features)

ScoreOf(m, features) ==
    IF PredictRaises(m, features) THEN FallbackScore ELSE predict_proba(m, features)

\* features[0] > 0.6
HighSkill(features) == 5 * features[1].n > 3 * features[1].d

why_recommended(features) ==
    << IF HighSkill(features) THEN "High skill match" ELSE "Profile relevance",
       IF features[3] = 1 THEN "Eligible year" ELSE "Growth potential" >>

\* a variant that labels an entry with the opportunity's branch
RankedEntryIdFromBranch(m, student, opp) ==
    LET features == build_features(student, opp)
    IN  [ opportunity_id |-> opp.branch,
          score |-> Round3(ScoreOf(m, features)),
          why_recommended |-> why_recommended(features) ]

\* a variant that words the first reason after the score
RankedEntryReasonsFromScore(m, student, opp) ==
    LET features == build_features(student, opp)
        score == Round3(ScoreOf(m, features))
    IN  [ opportunity_id |-> opp.id,
          score |-> score,
          why_recommended |->
             << IF score > 600 THEN "High skill match" ELSE "Profile relevance",
                IF features[3] = 1 THEN "Eligible year" ELSE "Growth potential" >> ]

RankedEntry(m, student, opp) ==
    LET features == build_features(student, opp)
    IN  [ opportunity_id |-> opp.id,
          score |-> Round3(ScoreOf(m, features)),
          why_recommended |-> why_recommended(features) ]

\* a variant that places an element before the elements of equal score
RECURSIVE InsertDescTiesReversed(_, _)
InsertDescTiesReversed(sorted, x) ==
    IF sorted = <<>> THEN <<x>>
    ELSE IF Head(sorted).score > x.score
         THEN <<Head(sorted)>> \o InsertDescTiesReversed(Tail(sorted), x)
         ELSE <<x>> \o sorted

\* sorted(..., key=score, reverse=True) is stable: an element goes after every
\* element already placed whose score is >= its own
RECURSIVE InsertDesc(_, _)
InsertDesc(sorted, x) ==
    IF sorted = <<>> THEN <<x>>
    ELSE IF Head(sorted).score >= x.score
         THEN <<Head(sorted)>> \o InsertDesc(Tail(sorted), x)
         ELSE <<x>> \o sorted

RECURSIVE SortByScoreDesc(_)
SortByScoreDesc(seq) ==
    IF seq = <<>> THEN <<>>
    ELSE InsertDesc(SortByScoreDesc(SubSeq(seq, 1, Len(seq) - 1)), seq[Len(seq)])

\* a variant in which serving a realtime request re-fits the classifier
LoadedModelRefitAfterRequest ==
    IF resp.op = "realtime_opportunities"
    THEN [raises |-> FALSE, bias |-> -3000, wSkill |-> 20000, wDept |-> 0,
          wYear |-> 0, wResume |-> 0]
    ELSE model

\* the module-level model handle that recommend reads
LoadedModel == model

RecommendRaises(student, opportunities) ==
    \E i \in 1..Len(opportunities) : FeaturesRaise(student, opportunities[i])

recommend(m, student, opportunities) ==
    SortByScoreDesc([i \in 1..Len(opportunities) |->
                        RankedEntry(m, student, opportunities[i])])

(***************************************************************************)
(* The users collection: student documents.                                *)
(***************************************************************************)
Student(dept, cgpa, arrears, skills, year, resume) ==
    [ email |-> <<dept, cgpa, arrears, skills, year, resume>>,
      department |-> dept,
      profile |-> [ cgpa |-> cgpa, arrears_history |-> arrears, skills |-> skills,
                    year |-> year, resume_score |-> resume ] ]

DeptcsPadded == <<"c", "s", " ">>

DeptEE == <<"E", "E">>

StudentDepts == {DeptCS, DeptcsPadded, DeptEE, <<>>}

\* students that differ in the gated fields
GateStudents ==
    { Student(d, c, a, <<SkillPy>>, NoneV, NoneV) :
        d \in StudentDepts, c \in {NoneV, Num(6), Num(7)}, a \in {NoneV, Num(1), Num(2)} }
    \cup { Student(DeptCS, BadV, Num(1), <<SkillPy>>, NoneV, NoneV),
           Student(DeptCS, Num(7), BadV, <<SkillPy>>, NoneV, NoneV) }

(***************************************************************************)
(* PlacementRepository.list_visible_for_student: the storage-layer         *)
(* eligibility query (department allow-list, minimum CGPA, maximum         *)
(* arrears), in stored order, at most limit documents.                     *)
(***************************************************************************)
Visible(doc, student_department, student_cgpa, student_arrears) ==
    /\ \/ doc.allowedDepartmentsLower = <<>>
       \/ Lower(student_department) \in Range(doc.allowedDepartmentsLower)
    /\ \/ doc.minCgpa.k = "none"
       \/ student_cgpa.k = "num" /\ student_cgpa.v >= doc.minCgpa.v
    /\ \/ doc.maxArrears.k = "none"
       \/ student_arrears.k = "num" /\ student_arrears.v <= doc.maxArrears.v

RECURSIVE Filter(_, _, _, _)
Filter(docs, d, c, a) ==
    IF docs = <<>> THEN <<>>
    ELSE IF Visible(Head(docs), d, c, a)
         THEN <<Head(docs)>> \o Filter(Tail(docs), d, c, a)
         ELSE Filter(Tail(docs), d, c, a)

Take(seq, n) == SubSeq(seq, 1, IF Len(seq) < n THEN Len(seq) ELSE n)

list_visible_for_student(student_department, student_cgpa, student_arrears, limit) ==
    Take(Filter(placements, student_department, student_cgpa, student_arrears), limit)

(***************************************************************************)
(* list(set(xs)): the distinct elements, in the iteration order of the     *)
(* process's string hashing (hashseed).                                    *)
(***************************************************************************)
ReasonUniverse ==
    << "High skill match", "Profile relevance", "Eligible year", "Growth potential",
       "Matches your interests" >>

Reverse(seq) == [i \in 1..Len(seq) |-> seq[Len(seq) + 1 - i]]

RECURSIVE KeepIn(_, _)
KeepIn(seq, S) ==
    IF seq = <<>> THEN <<>>
    ELSE IF Head(seq) \in S THEN <<Head(seq)>> \o KeepIn(Tail(seq), S)
         ELSE KeepIn(Tail(seq), S)

ListOfSet(xs) ==
    KeepIn(IF hashseed = 0 THEN ReasonUniverse ELSE Reverse(ReasonUniverse), Range(xs))

(***************************************************************************)
(* management.py: list_visible_placement_notices                           *)
(***************************************************************************)
DefaultLimit == 200

DefaultYear == 3

DefaultResumeScore == 700

DefaultMinYear == 1

\* float(cgpa) if cgpa is not None else None
CgpaArgDefaultsToTen(cgpa) == IF cgpa.k = "none" THEN Num(10) ELSE cgpa

CgpaArg(cgpa) == cgpa

ArrearsArg(arrears) == arrears

StudentData(profile, dept) ==
    [ skills |-> profile.skills,
      branch |-> dept,
      year |-> GetOr(profile.year, DefaultYear),
      resume_score |-> GetOr(profile.resume_score, DefaultResumeScore) ]

\* _extract_skills: the lower-cased labels of the resources
_extract_skills(d) == LowerEach(d.resources)

\* a variant that takes the branch from the notice's allowed departments
PlacementOppDataTargetBranch(docs, dept) ==
    [i \in 1..Len(docs) |->
        [ id |-> <<"pl", docs[i].id>>,
          required_skills |-> _extract_skills(docs[i]),
          branch |-> IF docs[i].allowedDepartmentsLower = <<>> THEN dept
                     ELSE docs[i].allowedDepartmentsLower[1],
          min_year |-> Num(DefaultMinYear) ]]

PlacementOppData(docs, dept) ==
    [i \in 1..Len(docs) |->
        [ id |-> <<"pl", docs[i].id>>,
          required_skills |-> _extract_skills(docs[i]),
          branch |-> dept,
          min_year |-> Num(DefaultMinYear) ]]

\* {r["opportunity_id"]: r for r in recommendations}.get(id): the last entry wins
RecFor(recommendations, id) ==
    LET hits == {i \in 1..Len(recommendations) : recommendations[i].opportunity_id = id}
    IN  IF hits = {} THEN [found |-> FALSE, score |-> 0, why_recommended |-> <<>>]
        ELSE LET last == CHOOSE i \in hits : \A j \in hits : j <= i
             IN  [ found |-> TRUE, score |-> recommendations[last].score,
                   why_recommended |-> recommendations[last].why_recommended ]

\* a variant that averages the scorer's score with the score the item came with
EnhanceBlendsScore(item, recommendations) ==
    LET rec == RecFor(recommendations, item.id)
    IN  IF rec.found
        THEN [item EXCEPT !.score = (item.score + rec.score) \div 2,
                          !.reasons = ListOfSet(item.reasons \o rec.why_recommended)]
        ELSE item

\* a variant that concatenates the two reason lists
EnhanceConcatenates(item, recommendations) ==
    LET rec == RecFor(recommendations, item.id)
    IN  IF rec.found
        THEN [item EXCEPT !.score = rec.score,
                          !.reasons = item.reasons \o rec.why_recommended]
        ELSE item

\* an item as first built (_to_placement_item / _to_opportunity_item), then the
\* if rec: branch
Enhance(item, recommendations) ==
    LET rec == RecFor(recommendations, item.id)
    IN  IF rec.found
        THEN [item EXCEPT !.score = rec.score,
                          !.reasons = ListOfSet(item.reasons \o rec.why_recommended)]
        ELSE item

_to_placement_item(d) == [id |-> <<"pl", d.id>>, score |-> 0, reasons |-> <<>>, doc |-> d]

VisibleNotices(student, limit) ==
    LET dept == Strip(student.department)
        docs == list_visible_for_student(dept, CgpaArg(student.profile.cgpa),
                                         ArrearsArg(student.profile.arrears_history), limit)
        student_data == StudentData(student.profile, dept)
        opp_data == PlacementOppData(docs, dept)
        recommendations == recommend(LoadedModel, student_data, opp_data)
        items == [i \in 1..Len(docs) |-> Enhance(_to_placement_item(docs[i]), recommendations)]
    IN  [ raised |-> RecommendRaises(student_data, opp_data),
          scored |-> [i \in 1..Len(opp_data) |-> opp_data[i].id],
          recommendations |-> recommendations,
          notices |-> SortByScoreDesc(items) ]

list_visible_placement_notices(ok, student, limit) ==
    /\ Serving
    /\ resp' =
          IF ~ok
          THEN [op |-> "list_visible_placement_notices", status |-> "failure"]
          ELSE IF student.profile.cgpa.k = "bad" \/ student.profile.arrears_history.k = "bad"
          THEN [op |-> "list_visible_placement_notices", status |-> "error",
                student |-> student]
          ELSE LET v == VisibleNotices(student, limit)
               IN  IF v.raised
                   THEN [op |-> "list_visible_placement_notices", status |-> "error",
                         student |-> student]
                   ELSE [op |-> "list_visible_placement_notices", status |-> "ok",
                         student |-> student, limit |-> limit, scored |-> v.scored,
                         recommendations |-> v.recommendations, notices |-> v.notices]
    /\ UNCHANGED <<placements, instructions, notes, events, registrations, model, hashseed, artifact, boot, ml_feedback>>

(***************************************************************************)
(* management.py: export_eligible_students_csv                             *)
(***************************************************************************)
ExportDeptGateUnstripped(notice, s) ==
    LET allowed_lower == notice.allowedDepartmentsLower
        dept_l == Lower(s.department)
    IN  ~(allowed_lower # <<>> /\ dept_l \notin Range(allowed_lower))

ExportDeptGate(notice, s) ==
    LET allowed_lower == notice.allowedDepartmentsLower
        dept_l == Lower(Strip(s.department))
    IN  ~(allowed_lower # <<>> /\ dept_l \notin Range(allowed_lower))

ExportCgpaGateUnknownPasses(notice, s) ==
    LET cgpa_v == s.profile.cgpa
    IN  IF notice.minCgpa.k = "none" THEN TRUE
        ELSE IF cgpa_v.k = "bad" THEN FALSE
        ELSE ~(cgpa_v.k # "none" /\ cgpa_v.v < notice.minCgpa.v)

\* a conversion that raises lands in except: continue
ExportCgpaGate(notice, s) ==
    LET cgpa_v == s.profile.cgpa
    IN  IF notice.minCgpa.k = "none" THEN TRUE
        ELSE IF cgpa_v.k = "bad" THEN FALSE
        ELSE ~(cgpa_v.k = "none" \/ cgpa_v.v < notice.minCgpa.v)

ExportArrearsGateStrict(notice, s) ==
    LET arrears_v == s.profile.arrears_history
    IN  IF notice.maxArrears.k = "none" THEN TRUE
        ELSE IF arrears_v.k = "bad" THEN FALSE
        ELSE ~(arrears_v.k = "none" \/ arrears_v.v >= notice.maxArrears.v)

ExportArrearsGate(notice, s) ==
    LET arrears_v == s.profile.arrears_history
    IN  IF notice.maxArrears.k = "none" THEN TRUE
        ELSE IF arrears_v.k = "bad" THEN FALSE
        ELSE ~(arrears_v.k = "none" \/ arrears_v.v > notice.maxArrears.v)

ExportRows(notice) ==
    { s \in GateStudents :
        ExportDeptGate(notice, s) /\ ExportCgpaGate(notice, s) /\ ExportArrearsGate(notice, s) }

StaffCallers == {"staff1", "staff2"}

export_eligible_students_csv(ok, notice_id, email) ==
    /\ resp' =
          IF ~ok
          THEN [op |-> "export_eligible_students_csv", status |-> "failure"]
          ELSE IF notice_id \notin 1..Len(placements)
          THEN [op |-> "export_eligible_students_csv", status |-> "not_found"]
          ELSE IF placements[notice_id].staffEmail # email
          THEN [op |-> "export_eligible_students_csv", status |-> "not_allowed"]
          ELSE [op |-> "export_eligible_students_csv", status |-> "ok",
                notice |-> placements[notice_id], rows |-> ExportRows(placements[notice_id])]
    /\ UNCHANGED <<placements, instructions, notes, events, registrations, model, hashseed, artifact, boot, ml_feedback>>

(***************************************************************************)
(* events.py: register_for_event (events carry no form fields here)        *)
(***************************************************************************)
RegisterDeptGate(event_doc, student) ==
    LET dept_l == Lower(Strip(student.department))
        allowed_lower == event_doc.allowedDepartmentsLower
    IN  ~(allowed_lower # <<>> /\ dept_l \notin Range(LowerEach(allowed_lower)))

RegisteredFor(event_id, email) ==
    \E r \in registrations : r.eventId = event_id /\ r.studentEmail = email

register_for_event(ok, event_id, student) ==
    LET status ==
          IF ~ok THEN "failure"
          ELSE IF event_id \notin 1..Len(events) THEN "event_not_found"
          ELSE IF ~RegisterDeptGate(events[event_id], student) THEN "not_visible"
          ELSE IF RegisteredFor(event_id, student.email) THEN "already_registered"
          ELSE "ok"
    IN  /\ Cardinality(registrations) < MaxRegistrations
        /\ registrations' =
              IF status = "ok"
              THEN registrations \cup
                     { [ eventId |-> event_id, studentEmail |-> student.email,
                         studentDepartment |-> Strip(student.department),
                         isPresent |-> FALSE, attendedAt |-> NoneV ] }
              ELSE registrations
        /\ resp' = [op |-> "register_for_event", status |-> status,
                    event_id |-> event_id, student |-> student]
        /\ UNCHANGED <<placements, instructions, notes, events, model, hashseed, artifact, boot, ml_feedback>>

(***************************************************************************)
(* events.py: mark_event_attendance.  The registration store              *)
(* (event_regs.get_one, event_regs.mark_attendance) is outside the         *)
(* sources at hand; mark_attendance is taken to set the flag and the       *)
(* attendance time of the one matching registration.  attendedAt counts    *)
(* the writes to the record: each write is later than the one before.      *)
(***************************************************************************)
\* event_regs.get_one(event_oid, student_email)
get_one(event_id, email) ==
    {r \in registrations : r.eventId = event_id /\ r.studentEmail = email}

NextStamp(reg) == IF reg.attendedAt.k = "num" THEN reg.attendedAt.v + 1 ELSE 1

\* event_regs.mark_attendance(event_oid, student_email, status)
mark_attendance(reg, status) ==
    (registrations \ {reg})
       \cup {[reg EXCEPT !.isPresent = status, !.attendedAt = Num(NextStamp(reg))]}

\* a variant in which a record marked present counts as already marked
AlreadyMarkedWhenPresent(reg, status) == reg.isPresent

\* a variant that never takes the early return
AlreadyMarkedNever(reg, status) == FALSE

\* lines 344-345: current_status == payload.status
AlreadyMarked(reg, status) == reg.isPresent = status

\* a variant that lets every event manager mark
OwnsEventAnyManager(event_doc, managerEmail) == TRUE

\* lines 318-319: the stored manager is compared trimmed and lower-cased
OwnsEvent(event_doc, managerEmail) ==
    Lower(Strip(event_doc.managerEmail)) = Lower(Strip(managerEmail))

\* ok: allowed domain, database connected, role event_manager.  resolved: the
\* student identifier is an e-mail address or was found by roll number or by
\* a registration answer; student_email is the address it stands for.
\* updated: what event_regs.mark_attendance returns.
mark_event_attendance(ok, event_id, managerEmail, resolved, student_email, status, updated) ==
    LET regs == get_one(event_id, student_email)
        reg == CHOOSE r \in regs : TRUE
        outcome ==
          IF ~ok THEN "failure"
          ELSE IF event_id \notin 1..Len(events) THEN "event_not_found"
          ELSE IF ~OwnsEvent(events[event_id], managerEmail) THEN "not_allowed"
          ELSE IF ~resolved THEN "student_not_found"
          ELSE IF regs = {} THEN "not_registered"
          ELSE IF AlreadyMarked(reg, status) THEN "already_marked"
          ELSE IF updated THEN "marked"
          ELSE "update_failed"
    IN  /\ \A r \in regs : NextStamp(r) <= MaxMarks
        /\ registrations' =
              IF outcome = "marked" THEN mark_attendance(reg, status) ELSE registrations
        /\ resp' = [op |-> "mark_event_attendance", outcome |-> outcome,
                    success |-> outcome \in {"already_marked", "marked"},
                    event_id |-> event_id, managerEmail |-> managerEmail,
                    resolved |-> resolved, student_email |-> student_email,
                    status |-> status]
        /\ UNCHANGED <<placements, instructions, notes, events, model, hashseed,
                       artifact, boot, ml_feedback>>

(***************************************************************************)
(* student.py: realtime_opportunities.  The extractor is an upstream feed: *)
(* its result (a list of opportunities, or an exception) is an input.      *)
(***************************************************************************)
Op(id, tags, score, reasons) == [id |-> id, tags |-> tags, score |-> score, reasons |-> reasons]

_to_opportunity_item(op) ==
    [id |-> <<"rt", op.id>>, score |-> op.score, reasons |-> op.reasons, doc |-> op]

RealtimeOppData(ops, department) ==
    [i \in 1..Len(ops) |->
        [ id |-> <<"rt", ops[i].id>>,
          required_skills |-> ops[i].tags,
          branch |-> department,
          min_year |-> Num(DefaultMinYear) ]]

RealtimeOpportunities(student, ops) ==
    LET department == student.department
        student_data == StudentData(student.profile, department)
        opp_data == RealtimeOppData(ops, department)
        recommendations == recommend(LoadedModel, student_data, opp_data)
        enhanced_ops ==
            [i \in 1..Len(ops) |-> Enhance(_to_opportunity_item(ops[i]), recommendations)]
    IN  [ raised |-> RecommendRaises(student_data, opp_data),
          scored |-> [i \in 1..Len(opp_data) |-> opp_data[i].id],
          recommendations |-> recommendations,
          opportunities |-> SortByScoreDesc(enhanced_ops) ]

\* authorized: current_user is the student asked for; extracted: the extractor returned
realtime_opportunities(authorized, ok, student, extracted, ops) ==
    /\ Serving
    /\ resp' =
          IF ~authorized
          THEN [op |-> "realtime_opportunities", status |-> "forbidden"]
          ELSE IF ~ok
          THEN [op |-> "realtime_opportunities", status |-> "failure"]
          ELSE IF ~extracted
          THEN [op |-> "realtime_opportunities", status |-> "error",
                raised_in |-> "extract_with_meta"]
          ELSE LET v == RealtimeOpportunities(student, ops)
               IN  IF v.raised
                   THEN [op |-> "realtime_opportunities", status |-> "error",
                         raised_in |-> "recommend", student |-> student, ops |-> ops]
                   ELSE [op |-> "realtime_opportunities", status |-> "ok",
                         student |-> student, ops |-> ops, scored |-> v.scored,
                         recommendations |-> v.recommendations,
                         opportunities |-> v.opportunities]
    /\ UNCHANGED <<placements, instructions, notes, events, registrations, model, hashseed, artifact, boot, ml_feedback>>

(***************************************************************************)
(* Selection rounds.  The administrative upload of a round's list is       *)
(* outside the sources at hand and is taken from the specification: it     *)
(* appends one round, with its number and its selected e-mail addresses,   *)
(* to the notice and never edits or removes one.                           *)
(* student.py: get_student_placement_status reads the rounds back.         *)
(***************************************************************************)
RoundItem(roundNumber, selectedStudents) ==
    [roundNumber |-> roundNumber, selectedStudents |-> selectedStudents]

RECURSIVE TotalRounds(_)
TotalRounds(docs) ==
    IF docs = <<>> THEN 0 ELSE Len(Head(docs).rounds) + TotalRounds(Tail(docs))

upload_round_selection(placement_id, roundNumber, selectedStudents) ==
    /\ placement_id \in 1..Len(placements)
    /\ TotalRounds(placements) < MaxRounds
    /\ placements' = [placements EXCEPT ![placement_id].rounds =
                         Append(@, RoundItem(roundNumber, selectedStudents))]
    /\ resp' = [op |-> "upload_round_selection", placement_id |-> placement_id,
                roundNumber |-> roundNumber]
    /\ UNCHANGED <<instructions, notes, events, registrations, model, hashseed,
                   artifact, boot, ml_feedback>>

\* line 321: col.find({"rounds.selectedStudents": email})
SelectedAnywhere(notice, email) ==
    \E j \in 1..Len(notice.rounds) : email \in Range(notice.rounds[j].selectedStudents)

\* a variant that reports only the first round a student is selected in
RECURSIVE FirstSelectionOnly(_, _, _)
FirstSelectionOnly(notice, rounds, email) ==
    IF rounds = <<>> THEN <<>>
    ELSE IF email \in Range(Head(rounds).selectedStudents)
         THEN << [placementId |-> notice.id, roundNumber |-> Head(rounds).roundNumber] >>
         ELSE FirstSelectionOnly(notice, Tail(rounds), email)

\* lines 325-334: one StudentRoundStatus per round item that lists the email
RECURSIVE SelectionsOf(_, _, _)
SelectionsOf(notice, rounds, email) ==
    IF rounds = <<>> THEN <<>>
    ELSE (IF email \in Range(Head(rounds).selectedStudents)
          THEN << [placementId |-> notice.id, roundNumber |-> Head(rounds).roundNumber] >>
          ELSE <<>>)
         \o SelectionsOf(notice, Tail(rounds), email)

RECURSIVE AllSelections(_, _)
AllSelections(docs, email) ==
    IF docs = <<>> THEN <<>>
    ELSE (IF SelectedAnywhere(Head(docs), email)
          THEN SelectionsOf(Head(docs), Head(docs).rounds, email)
          ELSE <<>>)
         \o AllSelections(Tail(docs), email)

\* authorized: current_user is the student asked for; is_student: role = "student"
get_student_placement_status(authorized, is_student, email) ==
    /\ Serving
    /\ resp' =
          IF ~authorized
          THEN [op |-> "get_student_placement_status", status |-> "forbidden"]
          ELSE IF ~is_student
          THEN [op |-> "get_student_placement_status", status |-> "failure"]
          ELSE [op |-> "get_student_placement_status", status |-> "ok",
                email |-> email, selections |-> AllSelections(placements, email)]
    /\ UNCHANGED <<placements, instructions, notes, events, registrations, model,
                   hashseed, artifact, boot, ml_feedback>>

(***************************************************************************)
(* ml/model.py and the import of ml/predict.py: the artifact at MODEL_PATH *)
(* and the processes that start.  "server" imports ml.predict             *)
(* (ensure_model_exists, then joblib.load); "trainer" runs ml/model.py as  *)
(* a script (ensure_model_exists only).  joblib.dump writes into           *)
(* MODEL_PATH itself: the file exists, incomplete, from the moment it is   *)
(* opened until the last byte is written.                                  *)
(***************************************************************************)
Procs == {"server", "trainer"}

Absent == [k |-> "absent", m |-> <<>>]
Partial == [k |-> "partial", m |-> <<>>]
Complete(m) == [k |-> "complete", m |-> m]

\* os.path.exists(MODEL_PATH)
Exists(file) == file.k # "absent"

\* LogisticRegression().fit on the fixed four-row dataset
BootstrapModel ==
    [raises |-> FALSE, bias |-> 1005, wSkill |-> 4000, wDept |-> 1500,
     wYear |-> 1510, wResume |-> 2000]

\* the name model before the import of ml.predict has bound it
Unloaded ==
    [raises |-> TRUE, bias |-> 0, wSkill |-> 0, wDept |-> 0, wYear |-> 0, wResume |-> 0]

ProcState(pc, found, trained, cause) ==
    [pc |-> pc, found |-> found, trained |-> trained, cause |-> cause]

\* what follows ensure_model_exists in each process
AfterEnsure(p) == IF p = "server" THEN "load" ELSE "done"

\* ensure_model_exists, line 16: if not os.path.exists(MODEL_PATH)
check_exists(p) ==
    /\ boot[p].pc = "start"
    /\ boot' = [boot EXCEPT ![p] =
                   IF Exists(artifact)
                   THEN ProcState(AfterEnsure(p), TRUE, FALSE, "none")
                   ELSE ProcState("fit", FALSE, FALSE, "none")]
    /\ UNCHANGED <<placements, instructions, notes, events, registrations, model,
                   hashseed, resp, artifact, ml_feedback>>

\* train_model, lines 10-11: model.fit(X, y)
fit(p, ok) ==
    /\ boot[p].pc = "fit"
    /\ boot' = [boot EXCEPT ![p] =
                   IF ok THEN ProcState("dump", FALSE, TRUE, "none")
                   ELSE ProcState("failed", FALSE, FALSE, "fit")]
    /\ UNCHANGED <<placements, instructions, notes, events, registrations, model,
                   hashseed, resp, artifact, ml_feedback>>

\* train_model, line 12: joblib.dump opens MODEL_PATH for writing
dump_open(p, ok) ==
    /\ boot[p].pc = "dump"
    /\ IF ok
       THEN /\ artifact' = Partial
            /\ boot' = [boot EXCEPT ![p].pc = "write"]
       ELSE /\ artifact' = artifact
            /\ boot' = [boot EXCEPT ![p] = ProcState("failed", FALSE, TRUE, "write")]
    /\ UNCHANGED <<placements, instructions, notes, events, registrations, model,
                   hashseed, resp, ml_feedback>>

\* train_model, line 12: joblib.dump writes the pickle and closes the file; a
\* write that fails leaves what was written so far
dump_write(p, ok) ==
    /\ boot[p].pc = "write"
    /\ IF ok
       THEN /\ artifact' = Complete(BootstrapModel)
            /\ boot' = [boot EXCEPT ![p].pc = AfterEnsure(p)]
       ELSE /\ artifact' = Partial
            /\ boot' = [boot EXCEPT ![p] = ProcState("failed", FALSE, TRUE, "write")]
    /\ UNCHANGED <<placements, instructions, notes, events, registrations, model,
                   hashseed, resp, ml_feedback>>

\* predict.py line 9: model = joblib.load(MODEL_PATH); an incomplete pickle
\* makes the load, and with it the import, raise
load(p) ==
    /\ boot[p].pc = "load"
    /\ IF artifact.k = "complete"
       THEN /\ model' = artifact.m
            /\ boot' = [boot EXCEPT ![p].pc = "serving"]
       ELSE /\ model' = model
            /\ boot' = [boot EXCEPT ![p].pc = "failed", ![p].cause = "load"]
    /\ UNCHANGED <<placements, instructions, notes, events, registrations,
                   hashseed, resp, artifact, ml_feedback>>

\* a process whose start failed is started again
restart(p) ==
    /\ boot[p].pc = "failed"
    /\ boot' = [boot EXCEPT ![p] = ProcState("start", FALSE, FALSE, boot[p].cause)]
    /\ UNCHANGED <<placements, instructions, notes, events, registrations, model,
                   hashseed, resp, artifact, ml_feedback>>

Started ==
    [p \in Procs |-> ProcState(IF p = "server" THEN "serving" ELSE "done",
                               TRUE, FALSE, "none")]

(***************************************************************************)
(* ml/feedback.py and routers/ml_feedback.py                               *)
(***************************************************************************)
PositiveActions == {"applied", "liked", "clicked"}

\* a variant that does not count a click
FeedbackValueWithoutClicked(action) == IF action \in {"applied", "liked"} THEN 1 ELSE 0

FeedbackValue(action) == IF action \in PositiveActions THEN 1 ELSE 0

feedback_doc(email, opportunity_id, action) ==
    [ email |-> email, opportunity_id |-> opportunity_id, action |-> action,
      value |-> FeedbackValue(action) ]

\* a variant that answers "feedback saved" whatever store_feedback did
FeedbackAnswerAlwaysSaved(raised) == [status |-> 200, body |-> "feedback saved"]

\* post_feedback, lines 15-23: the answer after store_feedback returned or raised
FeedbackAnswer(raised) ==
    IF raised THEN [status |-> 500, body |-> "error"]
    ELSE [status |-> 200, body |-> "feedback saved"]

\* a variant of the endpoint that re-fits the classifier on what it stored
post_feedback_retrains(inserted, email, opportunity_id, action) ==
    /\ Serving
    /\ Len(ml_feedback) < MaxFeedback
    /\ ml_feedback' = IF inserted
                      THEN Append(ml_feedback, feedback_doc(email, opportunity_id, action))
                      ELSE ml_feedback
    /\ artifact' = Complete(BootstrapModel)
    /\ model' = BootstrapModel
    /\ resp' = [op |-> "post_feedback", answer |-> FeedbackAnswer(~inserted),
                raised |-> ~inserted, inserts |-> 1, email |-> email, opportunity_id |-> opportunity_id,
                action |-> action]
    /\ UNCHANGED <<placements, instructions, notes, events, registrations, hashseed, boot>>

\* inserted: db.ml_feedback.insert_one returned; otherwise it raised and
\* nothing was written.  inserts counts the calls of insert_one.
post_feedback(inserted, email, opportunity_id, action) ==
    /\ Serving
    /\ Len(ml_feedback) < MaxFeedback
    /\ ml_feedback' = IF inserted
                      THEN Append(ml_feedback, feedback_doc(email, opportunity_id, action))
                      ELSE ml_feedback
    /\ resp' = [op |-> "post_feedback", answer |-> FeedbackAnswer(~inserted),
                raised |-> ~inserted, inserts |-> 1, email |-> email, opportunity_id |-> opportunity_id,
                action |-> action]
    /\ UNCHANGED <<placements, instructions, notes, events, registrations, model,
                   hashseed, artifact, boot>>

(***************************************************************************)
(* Initial state: empty collections; the classifier loaded at import and   *)
(* the process's hash seed are fixed from then on.                         *)
(***************************************************************************)
HashSeeds == {0, 1}

Init ==
    /\ placements = <<>>
    /\ instructions = <<>>
    /\ notes = <<>>
    /\ events = <<>>
    /\ registrations = {}
    /\ model \in ModelArtifacts
    /\ hashseed \in HashSeeds
    /\ resp = [op |-> "none"]
    /\ artifact = Complete(model)
    /\ boot = Started
    /\ ml_feedback = <<>>

\* one process: the first artifact, hash seed 0
InitOneProcess ==
    /\ Init
    /\ model = [raises |-> FALSE, bias |-> 1005, wSkill |-> 4000, wDept |-> 1500,
                wYear |-> 1510, wResume |-> 2000]
    /\ hashseed = 0

(***************************************************************************)
(* Spec: placement notices with the student-facing visibility list and the *)
(* management export.                                                      *)
(***************************************************************************)
NoticeInput(raw, minCgpa, maxArrears) == [raw |-> raw, minCgpa |-> minCgpa, maxArrears |-> maxArrears]

GateNoticeInputs ==
    { NoticeInput(<<>>, NoneV, NoneV),
      NoticeInput(<<DeptCS>>, NoneV, NoneV),
      NoticeInput(<<Deptee, DeptCS>>, Num(7), NoneV),
      NoticeInput(<<>>, Num(7), NoneV),
      NoticeInput(<<>>, NoneV, Num(1)),
      NoticeInput(<<DeptCS>>, Num(7), Num(1)),
      NoticeInput(<<SentAllMixed>>, Num(7), Num(1)) }

Next ==
    \/ \E ok \in BOOLEAN, n \in GateNoticeInputs :
          create_placement_notice(ok, n.raw, n.minCgpa, n.maxArrears, <<SkillPy>>)
    \/ \E ok \in BOOLEAN, s \in GateStudents, limit \in {1, DefaultLimit} :
          list_visible_placement_notices(ok, s, limit)
    \/ \E ok \in BOOLEAN, id \in 1..MaxPlacements, e \in StaffCallers :
          export_eligible_students_csv(ok, id, e)

Spec == InitOneProcess /\ [][Next]_vars

(***************************************************************************)
(* SpecDept: the department gate of the export and of event registration.  *)
(***************************************************************************)
DeptRawLists == { <<>>, <<DeptCS>>, <<Deptee, DeptCS>>, <<SentAllMixed>> }

RegStudents == { Student(d, Num(7), Num(1), <<SkillPy>>, NoneV, NoneV) : d \in StudentDepts }

NextDept ==
    \/ \E ok \in BOOLEAN, n \in GateNoticeInputs :
          create_placement_notice(ok, n.raw, n.minCgpa, n.maxArrears, <<SkillPy>>)
    \/ \E ok \in BOOLEAN, raw \in DeptRawLists : create_event(ok, "mgr1", raw)
    \/ \E ok \in BOOLEAN, id \in 1..MaxPlacements, e \in StaffCallers :
          export_eligible_students_csv(ok, id, e)
    \/ \E ok \in BOOLEAN, id \in 1..MaxEvents, s \in RegStudents :
          register_for_event(ok, id, s)

SpecDept == InitOneProcess /\ [][NextDept]_vars

(***************************************************************************)
(* SpecWrite: the four create handlers on every administrator input.       *)
(***************************************************************************)
NextWrite ==
    \/ \E ok \in BOOLEAN, raw \in RawDeptLists, c \in MinCgpaInputs, a \in MaxArrearsInputs :
          create_placement_notice(ok, raw, c, a, <<>>)
    \/ \E ok \in BOOLEAN, raw \in RawDeptLists : create_management_instruction(ok, raw)
    \/ \E ok \in BOOLEAN, csv \in RawDeptCsvs : upload_management_note(ok, csv)
    \/ \E ok \in BOOLEAN, raw \in RawDeptLists : create_event(ok, "mgr1", raw)

SpecWrite == InitOneProcess /\ [][NextWrite]_vars

(***************************************************************************)
(* SpecRank: scoring and ranking on both student-facing endpoints, under   *)
(* every classifier artifact and hash seed.                                *)
(***************************************************************************)
RankStudents ==
    { Student(DeptCS, Num(7), Num(1), <<SkillPy>>, NoneV, NoneV),
      Student(DeptCS, Num(7), Num(1), <<SkillPyUpper, SkillMl>>, Num(0), Num(850)),
      Student(DeptCS, Num(7), Num(1), <<>>, NoneV, NoneV),
      Student(DeptCS, Num(7), Num(1), <<SkillPy>>, BadV, NoneV) }

\* opportunities the extractor may return; two of them share an id, and the
\* reasons of some repeat a string or equal a reason of the scorer
OpPool ==
    { Op(1, <<SkillPy>>, 300, <<>>),
      Op(2, <<SkillPy, SkillMl>>, 900, <<"Matches your interests", "Eligible year">>),
      Op(1, <<SkillMl>>, 500, <<"High skill match", "High skill match">>) }

RECURSIVE SeqsUpTo(_, _)
SeqsUpTo(S, n) ==
    IF n = 0 THEN {<<>>}
    ELSE LET shorter == SeqsUpTo(S, n - 1)
         IN  shorter \cup {Append(q, x) : q \in shorter, x \in S}

NoRepeat(q) == \A i, j \in 1..Len(q) : i # j => q[i] # q[j]

OpLists == {q \in SeqsUpTo(OpPool, MaxOps) : NoRepeat(q)}

NextRank ==
    \/ \E res \in ResourceInputs : create_placement_notice(TRUE, <<>>, NoneV, NoneV, res)
    \/ \E s \in RankStudents, limit \in {1, DefaultLimit} :
          list_visible_placement_notices(TRUE, s, limit)
    \/ \E s \in RankStudents, ops \in OpLists :
          realtime_opportunities(TRUE, TRUE, s, TRUE, ops)
    \/ \E f \in {<<FALSE, TRUE, TRUE>>, <<TRUE, FALSE, TRUE>>, <<TRUE, TRUE, FALSE>>} :
          realtime_opportunities(f[1], f[2], CHOOSE s \in RankStudents : TRUE, f[3], <<>>)

SpecRank == Init /\ [][NextRank]_vars

(***************************************************************************)
(* SpecAttend: an event, its registrations and the attendance marks.       *)
(***************************************************************************)
ManagerMe == <<"m", "e">>

ManagerMePadded == <<"M", "e", " ">>

ManagerAl == <<"a", "l">>

AttendStudents ==
    { Student(DeptCS, Num(7), Num(1), <<SkillPy>>, NoneV, NoneV),
      Student(DeptEE, Num(7), Num(1), <<SkillPy>>, NoneV, NoneV) }

NextAttend ==
    \/ create_event(TRUE, ManagerMe, <<>>)
    \/ \E s \in AttendStudents : register_for_event(TRUE, 1, s)
    \/ \E s \in AttendStudents, status \in BOOLEAN, updated \in BOOLEAN :
          mark_event_attendance(TRUE, 1, ManagerMePadded, TRUE, s.email, status, updated)
    \/ \E f \in {<<FALSE, ManagerMe, TRUE>>, <<TRUE, ManagerAl, TRUE>>,
                  <<TRUE, ManagerMe, FALSE>>} :
          \E s \in AttendStudents, status \in BOOLEAN :
             mark_event_attendance(f[1], 1, f[2], f[3], s.email, status, TRUE)

SpecAttend == InitOneProcess /\ [][NextAttend]_vars

(***************************************************************************)
(* SpecRounds: notices, the rounds uploaded to them and the status query.  *)
(***************************************************************************)
RoundEmails == {"s1@kongu.edu", "s2@kongu.edu", "S1@kongu.edu"}

RoundUploads ==
    { RoundItem(1, <<"s1@kongu.edu">>),
      RoundItem(2, <<"s2@kongu.edu", "s1@kongu.edu">>),
      RoundItem(2, <<"s2@kongu.edu">>),
      RoundItem(1, <<"S1@kongu.edu", "s2@kongu.edu", "s2@kongu.edu">>) }

NextRounds ==
    \/ create_placement_notice(TRUE, <<>>, NoneV, NoneV, <<>>)
    \/ \E id \in 1..MaxPlacements, r \in RoundUploads :
          upload_round_selection(id, r.roundNumber, r.selectedStudents)
    \/ \E email \in RoundEmails : get_student_placement_status(TRUE, TRUE, email)
    \/ \E f \in {<<FALSE, TRUE>>, <<TRUE, FALSE>>} :
          get_student_placement_status(f[1], f[2], "s1@kongu.edu")

SpecRounds == InitOneProcess /\ [][NextRounds]_vars

(***************************************************************************)
(* SpecFeatures: ml/features.py and ml/predict.py called directly, on      *)
(* skill lists with repeated, padded, upper-case and blank entries, on     *)
(* branches that differ in case, padding or length, and on present,        *)
(* absent and malformed years and resume scores.                           *)
(***************************************************************************)
skill_match_call(student_skills, opp_skills) ==
    /\ resp' = [op |-> "skill_match", student_skills |-> student_skills,
                opp_skills |-> opp_skills,
                result |-> skill_match(student_skills, opp_skills)]
    /\ UNCHANGED <<placements, instructions, notes, events, registrations, model,
                   hashseed, artifact, boot, ml_feedback>>

build_features_call(student, opportunity) ==
    /\ resp' = IF FeaturesRaise(student, opportunity)
               THEN [op |-> "build_features", raised |-> TRUE, student |-> student,
                     opportunity |-> opportunity]
               ELSE [op |-> "build_features", raised |-> FALSE, student |-> student,
                     opportunity |-> opportunity,
                     features |-> build_features(student, opportunity)]
    /\ UNCHANGED <<placements, instructions, notes, events, registrations, model,
                   hashseed, artifact, boot, ml_feedback>>

recommend_call(student, opportunities) ==
    /\ ~RecommendRaises(student, opportunities)
    /\ resp' = [op |-> "recommend", student |-> student,
                opportunities |-> opportunities,
                ranked |-> recommend(LoadedModel, student, opportunities)]
    /\ UNCHANGED <<placements, instructions, notes, events, registrations, model,
                   hashseed, artifact, boot, ml_feedback>>

SkillA == <<"a">>

SkillAPadded == <<" ", "A", " ">>

SkillC == <<"c">>

SkillE == <<"e">>

SkillL == <<"l">>

SkillM == <<"m">>

SkillBlank == <<" ">>

FiveSkills == <<SkillA, SkillC, SkillE, SkillL, SkillM>>

StudentSkillLists ==
    { <<>>, <<SkillA>>, <<SkillAPadded, SkillA, SkillC>>, <<SkillA, SkillC, SkillE>>,
      <<SkillE, SkillL, SkillC, SkillA>>, <<SkillBlank, SkillM>> }

OppSkillLists ==
    { <<>>, <<SkillAPadded>>, <<SkillA, SkillAPadded, SkillC>>, FiveSkills,
      <<SkillBlank>> }

BranchLower == <<"c", "s">>

BranchShort == <<"c">>

FeatureStudents ==
    { [skills |-> sk, branch |-> b, year |-> NoneV, resume_score |-> NoneV] :
        sk \in {<<SkillA, SkillC, SkillE>>}, b \in {DeptCS, DeptcsPadded, DeptEE, <<>>} }
    \cup { [skills |-> <<SkillE, SkillL, SkillC, SkillA>>, branch |-> BranchLower,
            year |-> y, resume_score |-> Num(850)] :
            y \in {Num(0), Num(1), Num(2), Num(-1)} }
    \cup { [skills |-> <<>>, branch |-> BranchLower, year |-> BadV, resume_score |-> Num(0)],
           [skills |-> <<>>, branch |-> BranchLower, year |-> Num(2), resume_score |-> BadV] }

FeatureOpps ==
    { [id |-> 1, required_skills |-> FiveSkills, branch |-> BranchLower, min_year |-> my] :
        my \in {NoneV, Num(1), Num(2)} }
    \cup { [id |-> 2, required_skills |-> <<SkillAPadded>>, branch |-> b, min_year |-> Num(0)] :
            b \in {BranchShort, <<>>} }
    \cup { [id |-> 3, required_skills |-> <<>>, branch |-> DeptCS, min_year |-> BadV] }

FeatureOppLists ==
    { <<o>> : o \in FeatureOpps }
    \cup { <<o1, o2>> : o1 \in {o \in FeatureOpps : o.id = 1},
                        o2 \in {o \in FeatureOpps : o.id = 2} }

NextFeatures ==
    \/ \E s \in StudentSkillLists, o \in OppSkillLists : skill_match_call(s, o)
    \/ \E s \in FeatureStudents, o \in FeatureOpps : build_features_call(s, o)
    \/ \E s \in FeatureStudents, os \in FeatureOppLists : recommend_call(s, os)

SpecFeatures == Init /\ [][NextFeatures]_vars

(***************************************************************************)
(* SpecBranch: both ranking endpoints for students of several departments, *)
(* stored with and without padding, and notices that target none, another  *)
(* or several departments.                                                 *)
(***************************************************************************)
BranchStudents ==
    { Student(d, NoneV, NoneV, <<SkillPy>>, Num(2), NoneV) : d \in StudentDepts }

BranchTargets == { <<>>, <<DeptEE>>, <<Deptee, DeptCS>> }

BranchOpLists == { <<Op(1, <<SkillPy>>, 300, <<>>)>>,
                   <<Op(1, <<SkillPy>>, 300, <<>>), Op(2, <<SkillMl>>, 900, <<>>)>> }

NextBranch ==
    \/ \E raw \in BranchTargets :
          create_placement_notice(TRUE, raw, NoneV, NoneV, <<SkillPy>>)
    \/ \E s \in BranchStudents : list_visible_placement_notices(TRUE, s, DefaultLimit)
    \/ \E s \in BranchStudents, ops \in BranchOpLists :
          realtime_opportunities(TRUE, TRUE, s, TRUE, ops)

SpecBranch == Init /\ [][NextBranch]_vars

(***************************************************************************)
(* SpecLife: the start of the processes, from before the import of         *)
(* ml.predict, and the requests the server answers once it is up.          *)
(***************************************************************************)
\* an artifact left by an earlier training run
PretrainedModel ==
    [raises |-> FALSE, bias |-> 4996, wSkill |-> 8, wDept |-> 0, wYear |-> 0, wResume |-> 0]

InitBoot ==
    /\ placements = <<>>
    /\ instructions = <<>>
    /\ notes = <<>>
    /\ events = <<>>
    /\ registrations = {}
    /\ model = Unloaded
    /\ hashseed = 0
    /\ resp = [op |-> "none"]
    /\ artifact \in {Absent, Complete(PretrainedModel)}
    /\ boot = [p \in Procs |-> ProcState("start", FALSE, FALSE, "none")]
    /\ ml_feedback = <<>>

FeedbackRequests ==
    { <<"s1@kongu.edu", "rt-1", "applied">>,
      <<"s1@kongu.edu", "rt-2", "liked">>,
      <<"s2@kongu.edu", "rt-1", "clicked">>,
      <<"s2@kongu.edu", "rt-2", "dismissed">>,
      <<"s1@kongu.edu", "rt-1", "Applied">> }

LifeStudent == Student(DeptCS, Num(7), Num(1), <<SkillPy>>, NoneV, NoneV)

NextLife ==
    \/ \E p \in Procs : check_exists(p)
    \/ \E p \in Procs, ok \in BOOLEAN : fit(p, ok)
    \/ \E p \in Procs, ok \in BOOLEAN : dump_open(p, ok)
    \/ \E p \in Procs, ok \in BOOLEAN : dump_write(p, ok)
    \/ load("server")
    \/ \E p \in Procs : restart(p)
    \/ \E inserted \in BOOLEAN, f \in FeedbackRequests :
          post_feedback(inserted, f[1], f[2], f[3])
    \/ \E ops \in {<<>>, <<Op(1, <<SkillPy>>, 300, <<>>)>>} :
          realtime_opportunities(TRUE, TRUE, LifeStudent, TRUE, ops)
    \/ list_visible_placement_notices(TRUE, LifeStudent, DefaultLimit)

SpecLife == InitBoot /\ [][NextLife]_vars

(***************************************************************************)
(* The eligibility gates as the specification states them.                 *)
(***************************************************************************)
LowerForms(allowed) == {Lower(allowed[i]) : i \in 1..Len(allowed)}

\* department gate on the trimmed, lower-cased student department
DeptGateTrimmed(allowed, department) ==
    allowed = <<>> \/ Lower(Strip(department)) \in LowerForms(allowed)

\* department gate on the lower-cased student department as stored
DeptGateAsStored(allowed, department) ==
    allowed = <<>> \/ Lower(department) \in LowerForms(allowed)

CgpaGateStated(minCgpa, cgpa) ==
    minCgpa.k = "none" \/ (cgpa.k = "num" /\ cgpa.v >= minCgpa.v)

ArrearsGateStated(maxArrears, arrears) ==
    maxArrears.k = "none" \/ (arrears.k = "num" /\ arrears.v <= maxArrears.v)

EligibleStated(doc, student) ==
    /\ DeptGateTrimmed(doc.allowedDepartments, student.department)
    /\ CgpaGateStated(doc.minCgpa, student.profile.cgpa)
    /\ ArrearsGateStated(doc.maxArrears, student.profile.arrears_history)

ItemIds(items) == {items[i].id : i \in 1..Len(items)}

VisibleOk == resp.op = "list_visible_placement_notices" /\ resp.status = "ok"

ExportOk == resp.op = "export_eligible_students_csv" /\ resp.status = "ok"

RegisterDecided ==
    /\ resp.op = "register_for_event"
    /\ resp.status \in {"not_visible", "already_registered", "ok"}

\* C1: an opportunity that fails any of the three eligibility gates for the
\* student is neither passed to the scorer nor present in the list
\* list_visible_placement_notices returns, whatever its score would be.
C1_IneligibleNeverRanked ==
    VisibleOk =>
        \A i \in 1..Len(placements) :
            ~EligibleStated(placements[i], resp.student) =>
                /\ <<"pl", placements[i].id>> \notin ItemIds(resp.notices)
                /\ <<"pl", placements[i].id>> \notin Range(resp.scored)
                /\ \A j \in 1..Len(resp.recommendations) :
                      resp.recommendations[j].opportunity_id # <<"pl", placements[i].id>>

\* C1 witness: a list that returns one notice and omits an ineligible one
C1_Witness ==
    /\ VisibleOk
    /\ Len(placements) = 2
    /\ Len(resp.notices) = 1
    /\ \E i \in 1..2 : ~EligibleStated(placements[i], resp.student)

\* C2 (as stated): a student passes the department gate iff the stored
\* allow-list is empty or the lower-cased student department equals the
\* lower-cased form of an entry.
C2_DeptGateAsStated ==
    /\ ExportOk =>
          \A s \in GateStudents :
              s \in resp.rows <=>
                  /\ DeptGateAsStored(resp.notice.allowedDepartments, s.department)
                  /\ CgpaGateStated(resp.notice.minCgpa, s.profile.cgpa)
                  /\ ArrearsGateStated(resp.notice.maxArrears, s.profile.arrears_history)
    /\ RegisterDecided =>
          (resp.status # "not_visible" <=>
              DeptGateAsStored(events[resp.event_id].allowedDepartments,
                               resp.student.department))

\* C2 (amended): a student passes the department gate iff the stored
\* allow-list is empty or the trimmed, lower-cased student department equals
\* the lower-cased form of an entry; with an empty allow-list only the CGPA
\* and arrears gates decide.
C2_DeptGateTrimmed ==
    /\ ExportOk =>
          \A s \in GateStudents :
              s \in resp.rows <=>
                  /\ DeptGateTrimmed(resp.notice.allowedDepartments, s.department)
                  /\ CgpaGateStated(resp.notice.minCgpa, s.profile.cgpa)
                  /\ ArrearsGateStated(resp.notice.maxArrears, s.profile.arrears_history)
    /\ RegisterDecided =>
          (resp.status # "not_visible" <=>
              DeptGateTrimmed(events[resp.event_id].allowedDepartments,
                              resp.student.department))

\* C2 witness: a student whose stored department is padded registers for an
\* event restricted to that department
C2_Witness ==
    /\ resp.op = "register_for_event"
    /\ resp.status = "ok"
    /\ resp.student.department = DeptcsPadded
    /\ events[resp.event_id].allowedDepartments # <<>>

\* C3: with minCgpa set a student passes the CGPA gate iff the CGPA is known
\* and >= minCgpa (an unknown CGPA fails); with minCgpa unset the gate passes.
C3_CgpaGate ==
    /\ ExportOk =>
          \A s \in GateStudents :
              (/\ DeptGateTrimmed(resp.notice.allowedDepartments, s.department)
               /\ ArrearsGateStated(resp.notice.maxArrears, s.profile.arrears_history))
              => (s \in resp.rows <=> CgpaGateStated(resp.notice.minCgpa, s.profile.cgpa))
    /\ VisibleOk =>
          \A i \in 1..Len(placements) :
              LET d == placements[i]
                  listed == <<"pl", d.id>> \in ItemIds(resp.notices)
                  passes == CgpaGateStated(d.minCgpa, resp.student.profile.cgpa)
              IN  /\ listed => passes
                  /\ (/\ resp.limit = DefaultLimit
                      /\ DeptGateTrimmed(d.allowedDepartments, resp.student.department)
                      /\ ArrearsGateStated(d.maxArrears, resp.student.profile.arrears_history)
                      /\ passes) => listed

\* C3 witness: an export under a minimum CGPA that keeps a student at the
\* threshold or above and drops a student of unknown CGPA
C3_Witness ==
    /\ ExportOk
    /\ resp.notice.minCgpa.k = "num"
    /\ \E s \in resp.rows : s.profile.cgpa.k = "num"
    /\ \E s \in GateStudents \ resp.rows :
          /\ s.profile.cgpa.k = "none"
          /\ DeptGateTrimmed(resp.notice.allowedDepartments, s.department)
          /\ ArrearsGateStated(resp.notice.maxArrears, s.profile.arrears_history)

\* C4: with maxArrears set a student passes the arrears gate iff the arrears
\* count is known and <= maxArrears (an unknown count fails); with maxArrears
\* unset the gate passes.
C4_ArrearsGate ==
    /\ ExportOk =>
          \A s \in GateStudents :
              (/\ DeptGateTrimmed(resp.notice.allowedDepartments, s.department)
               /\ CgpaGateStated(resp.notice.minCgpa, s.profile.cgpa))
              => (s \in resp.rows <=>
                    ArrearsGateStated(resp.notice.maxArrears, s.profile.arrears_history))
    /\ VisibleOk =>
          \A i \in 1..Len(placements) :
              LET d == placements[i]
                  listed == <<"pl", d.id>> \in ItemIds(resp.notices)
                  passes == ArrearsGateStated(d.maxArrears, resp.student.profile.arrears_history)
              IN  /\ listed => passes
                  /\ (/\ resp.limit = DefaultLimit
                      /\ DeptGateTrimmed(d.allowedDepartments, resp.student.department)
                      /\ CgpaGateStated(d.minCgpa, resp.student.profile.cgpa)
                      /\ passes) => listed

\* C4 witness: an export under a maximum arrears count that keeps a student
\* within it and drops a student of unknown count
C4_Witness ==
    /\ ExportOk
    /\ resp.notice.maxArrears.k = "num"
    /\ \E s \in resp.rows : s.profile.arrears_history.k = "num"
    /\ \E s \in GateStudents \ resp.rows :
          /\ s.profile.arrears_history.k = "none"
          /\ DeptGateTrimmed(resp.notice.allowedDepartments, s.department)
          /\ CgpaGateStated(resp.notice.minCgpa, s.profile.cgpa)

(***************************************************************************)
(* The write boundary.                                                     *)
(***************************************************************************)
IsSentinel(entry) == Lower(Strip(entry)) \in Sentinels

\* the stored allow-list the specification asks for, from the entries supplied
StoredStated(entries) ==
    IF \E i \in 1..Len(entries) : IsSentinel(entries[i]) THEN <<>>
    ELSE StripEach(SelectSeq(entries, NonBlank))

NoSentinelStored(doc) ==
    /\ \A e \in Range(doc.allowedDepartments) \cup Range(doc.allowedDepartmentsLower) :
          Lower(e) \notin Sentinels
    /\ doc.allowedDepartmentsLower = LowerEach(doc.allowedDepartments)

LastOf(store) == store[Len(store)]

\* C5: every stored record's allowedDepartments and allowedDepartmentsLower
\* holds no "all" or "*" in any letter case; a supplied sentinel empties the
\* stored list, otherwise it is the trimmed non-blank entries; the lower list
\* is the element-wise lower-casing of the stored list.
C5_SentinelNormalizedAtWrite ==
    /\ \A store \in {placements, instructions, notes, events} :
          \A i \in 1..Len(store) : NoSentinelStored(store[i])
    /\ (resp.op = "create_placement_notice" /\ resp.success) =>
          LastOf(placements).allowedDepartments = StoredStated(resp.raw)
    /\ (resp.op = "create_management_instruction" /\ resp.success) =>
          LastOf(instructions).allowedDepartments = StoredStated(resp.raw)
    /\ (resp.op = "upload_management_note" /\ resp.success) =>
          LastOf(notes).allowedDepartments = StoredStated(SplitComma(resp.raw, <<>>))
    /\ (resp.op = "create_event" /\ resp.success) =>
          LastOf(events).allowedDepartments = StoredStated(resp.raw)

\* C5 witness: a padded upper-case sentinel beside a department empties the
\* stored allow-list
C5_Witness ==
    /\ resp.op = "create_placement_notice"
    /\ resp.success
    /\ resp.raw = <<DeptCS, SentALLPadded>>
    /\ LastOf(placements).allowedDepartments = <<>>

(***************************************************************************)
(* Scoring and ranking.                                                    *)
(***************************************************************************)
\* a response that carries a ranking
Ranked ==
    /\ resp.op \in {"list_visible_placement_notices", "realtime_opportunities"}
    /\ resp.status = "ok"

\* the final list of the response and the candidate list it was built from
FinalList == IF resp.op = "realtime_opportunities" THEN resp.opportunities ELSE resp.notices

Candidates ==
    IF resp.op = "realtime_opportunities" THEN resp.ops
    ELSE list_visible_for_student(Strip(resp.student.department),
                                  CgpaArg(resp.student.profile.cgpa),
                                  ArrearsArg(resp.student.profile.arrears_history),
                                  resp.limit)

\* scores are kept in thousandths
ScoreUnit == Round3(ProbUnit)

\* C6: every score recommend returns lies in [0,1]; under a classifier whose
\* predict_proba raises every score is the fallback 0.5 and recommend still
\* returns: a recommend call fails only on a feature it cannot convert.
C6_ScoreInUnitInterval ==
    /\ Ranked =>
          \A i \in 1..Len(resp.recommendations) :
             /\ resp.recommendations[i].score \in 0..ScoreUnit
             /\ model.raises => resp.recommendations[i].score = Round3(FallbackScore)
    /\ (resp.op = "realtime_opportunities" /\ resp.status = "error"
           /\ resp.raised_in = "recommend") =>
          resp.student.profile.year.k = "bad" \/ resp.student.profile.resume_score.k = "bad"

\* C6 witness: under the raising classifier a ranking of two opportunities of
\* different skill match comes back, both at the fallback
C6_Witness ==
    /\ Ranked
    /\ model.raises
    /\ Len(resp.recommendations) >= 2
    /\ \A i \in 1..Len(resp.recommendations) :
          resp.recommendations[i].score = Round3(FallbackScore)
    /\ \E i, j \in 1..Len(resp.recommendations) :
          resp.recommendations[i].why_recommended # resp.recommendations[j].why_recommended

\* C7: every opportunity_id recommend returns is the id of an element of its
\* opportunities argument, and it returns one entry for each element given.
C7_OutputWithinInput ==
    Ranked =>
       /\ \A i \in 1..Len(resp.recommendations) :
             resp.recommendations[i].opportunity_id \in Range(resp.scored)
       /\ Len(resp.recommendations) = Len(resp.scored)

\* C7 witness: a ranking of two opportunities out of a pool of more
C7_Witness ==
    /\ Ranked
    /\ resp.op = "realtime_opportunities"
    /\ Len(resp.recommendations) = 2
    /\ \E op \in OpPool : <<"rt", op.id>> \notin Range(resp.scored)

\* the request of a ranked response; the candidate list of the notices
\* endpoint is the collection itself, which a ranking step leaves alone
SameRequest(r1, r2) ==
    /\ r1.op = r2.op
    /\ r1.student = r2.student
    /\ r1.op = "realtime_opportunities" => r1.ops = r2.ops
    /\ r1.op = "list_visible_placement_notices" => r1.limit = r2.limit

Perms(n) == {f \in [1..n -> 1..n] : \A i, j \in 1..n : f[i] = f[j] => i = j}

\* scores never rise along out, and entries of equal score keep the order
\* their sources have in the input (source[k] is the input position of out[k])
DescendingStable(out, source) ==
    \A k, l \in 1..Len(out) :
       k < l => \/ out[k].score > out[l].score
                \/ out[k].score = out[l].score /\ source[k] < source[l]

\* C9: recommend's result is its input re-ordered by non-increasing score with
\* entries of equal rounded score in input order, and so is the final list of
\* the router with respect to the candidate list it was handed.
C9_SortedDescendingStable ==
    Ranked =>
       /\ Len(resp.recommendations) = Len(resp.scored)
       /\ \E source \in Perms(Len(resp.scored)) :
             /\ \A k \in 1..Len(resp.scored) :
                   resp.recommendations[k].opportunity_id = resp.scored[source[k]]
             /\ DescendingStable(resp.recommendations, source)
       /\ Len(FinalList) = Len(Candidates)
       /\ \E source \in Perms(Len(Candidates)) :
             /\ \A k \in 1..Len(Candidates) : FinalList[k].doc = Candidates[source[k]]
             /\ DescendingStable(FinalList, source)

\* C9 witness: a final list of three opportunities, two of them tied, that is
\* not in the order the extractor gave
C9_Witness ==
    /\ Ranked
    /\ resp.op = "realtime_opportunities"
    /\ Len(resp.opportunities) = 3
    /\ resp.opportunities[1].doc # resp.ops[1]
    /\ resp.opportunities[1].score > resp.opportunities[3].score
    /\ \E k \in {1, 2} : resp.opportunities[k].score = resp.opportunities[k + 1].score

\* the reasons an item had before the scorer's were merged in
ExternalReasons(item) ==
    IF resp.op = "realtime_opportunities" THEN item.doc.reasons ELSE <<>>

NoDuplicates(seq) == \A i, j \in 1..Len(seq) : seq[i] = seq[j] => i = j

\* C10: the reasons of every item of the final list hold no string twice and
\* are, as a set, the item's external reasons together with the reasons the
\* scorer gave for the item's id.
C10_ReasonsSetUnion ==
    Ranked =>
       \A k \in 1..Len(FinalList) :
          /\ NoDuplicates(FinalList[k].reasons)
          /\ \E i \in 1..Len(resp.recommendations) :
                /\ resp.recommendations[i].opportunity_id = FinalList[k].id
                /\ Range(FinalList[k].reasons) =
                      Range(ExternalReasons(FinalList[k]))
                         \cup Range(resp.recommendations[i].why_recommended)

\* C10 witness: an item whose external reasons name a scorer reason and one
\* whose external reasons repeat a string
C10_Witness ==
    /\ Ranked
    /\ resp.op = "realtime_opportunities"
    /\ \E k \in 1..Len(FinalList), i \in 1..Len(resp.recommendations) :
          /\ resp.recommendations[i].opportunity_id = FinalList[k].id
          /\ Range(ExternalReasons(FinalList[k]))
                \cap Range(resp.recommendations[i].why_recommended) # {}
          /\ Range(ExternalReasons(FinalList[k]))
                \ Range(resp.recommendations[i].why_recommended) # {}
    /\ \E k \in 1..Len(FinalList) : ~NoDuplicates(ExternalReasons(FinalList[k]))

\* the scorer's input for each candidate, as the router builds it
CandidateData ==
    IF resp.op = "realtime_opportunities"
    THEN RealtimeOppData(resp.ops, resp.student.department)
    ELSE PlacementOppData(Candidates, Strip(resp.student.department))

ScorerStudent ==
    StudentData(resp.student.profile,
                IF resp.op = "realtime_opportunities" THEN resp.student.department
                ELSE Strip(resp.student.department))

\* the Match Scorer's output for the student and one candidate
ScorerOutput(opp) == Round3(ScoreOf(model, build_features(ScorerStudent, opp)))

\* the score an item had before scoring: the extractor's, or the stored one
ExternalScore(item) ==
    IF resp.op = "realtime_opportunities" THEN item.doc.score ELSE 0

C12_RankedOutputDeduplicated ==
    Ranked =>
       /\ NoDuplicates([i \in 1..Len(resp.recommendations) |->
                           resp.recommendations[i].opportunity_id])
       /\ NoDuplicates([k \in 1..Len(FinalList) |-> FinalList[k].id])

\* the reasons recommend derives from a feature vector
FeatureReasons ==
    {"High skill match", "Profile relevance", "Eligible year", "Growth potential"}

\* C13: under a classifier whose predict_proba raises, every entry of
\* recommend's result has the fallback score 0.5 and a reason that is not one
\* of the feature-derived reasons.
C13_FallbackCarriesGenericReason ==
    (Ranked /\ model.raises) =>
       \A i \in 1..Len(resp.recommendations) :
          /\ resp.recommendations[i].score = Round3(FallbackScore)
          /\ Range(resp.recommendations[i].why_recommended) \ FeatureReasons # {}

(***************************************************************************)
(* The model artifact and the start of the scorer.                         *)
(***************************************************************************)
\* C14: a start that finds no artifact trains and completes the write before
\* it loads, and then serves the trained model; a start that finds an
\* artifact trains nothing and serves what it found; a start fails only
\* because the bootstrap training or the write failed.
C14_BootstrapBeforeLoad ==
    LET s == boot["server"]
    IN  /\ (s.pc \in {"load", "serving"} /\ ~s.found) => s.trained
        /\ s.pc = "load" => artifact.k = "complete"
        /\ s.found => ~s.trained
        /\ s.pc = "serving" => model # Unloaded
        /\ (s.pc = "serving" /\ s.trained) => model = BootstrapModel
        /\ s.pc = "failed" => s.cause \in {"fit", "write"}

\* C15: no process ever loads an artifact that is not completely written.
C15_NoPartialArtifactRead ==
    [][ \A p \in Procs :
          (boot[p].pc = "load" /\ boot'[p].pc # "load") => artifact.k = "complete" ]_vars

\* C16: once the server is up it stays up with the same model handle, it
\* runs no step of train_model, and the artifact changes only by a step of
\* the trainer process, never by a request.
C16_NoRetrainOnRequest ==
    [][ Serving =>
          /\ model' = model
          /\ boot'["server"] = boot["server"]
          /\ artifact' # artifact => boot'["trainer"] # boot["trainer"] ]_vars

\* C16 witness: the server, started on an earlier run's artifact, has stored
\* feedback and then answered a ranking request with that artifact's model
C16_Witness ==
    /\ Serving
    /\ Len(ml_feedback) = MaxFeedback
    /\ Ranked
    /\ Len(resp.recommendations) > 0
    /\ model = PretrainedModel
    /\ artifact = Complete(PretrainedModel)

(***************************************************************************)
(* The feedback log.                                                       *)
(***************************************************************************)
\* C17: every stored entry has value 1 if its action is applied, liked or
\* clicked and value 0 otherwise; the log changes only by a successful call,
\* which appends one entry with the given email, opportunity id and action
\* and leaves the earlier entries as they were.
C17_FeedbackValueAndAppend ==
    /\ [](\A i \in 1..Len(ml_feedback) :
            /\ ml_feedback[i].action \in {"applied", "liked", "clicked"}
                  => ml_feedback[i].value = 1
            /\ ml_feedback[i].action \notin {"applied", "liked", "clicked"}
                  => ml_feedback[i].value = 0)
    /\ [][ ml_feedback' # ml_feedback =>
             /\ resp'.op = "post_feedback"
             /\ ~resp'.raised
             /\ Len(ml_feedback') = Len(ml_feedback) + 1
             /\ SubSeq(ml_feedback', 1, Len(ml_feedback)) = ml_feedback
             /\ LET e == ml_feedback'[Len(ml_feedback')]
                IN  /\ e.email = resp'.email
                    /\ e.opportunity_id = resp'.opportunity_id
                    /\ e.action = resp'.action ]_vars
    /\ []((resp.op = "post_feedback" /\ ~resp.raised) => ml_feedback # <<>>)

\* C17 witness: a click stored after an action that is not a positive one
C17_Witness ==
    /\ resp.op = "post_feedback"
    /\ ~resp.raised
    /\ Len(ml_feedback) = 2
    /\ ml_feedback[1].action \in {"dismissed", "Applied"}
    /\ ml_feedback[2].action = "clicked"
    /\ ml_feedback[2].value = 1

\* C18: when insert_one raises, the endpoint answers with an error and not
\* with "feedback saved", insert_one was called once, and the log is as it
\* was before the call.
C18_FeedbackFailureSurfaced ==
    /\ []((resp.op = "post_feedback" /\ resp.raised) =>
            /\ resp.answer.status = 500
            /\ resp.answer.body # "feedback saved"
            /\ resp.inserts = 1)
    /\ [][ (resp'.op = "post_feedback" /\ resp'.raised /\ resp' # resp) =>
             ml_feedback' = ml_feedback ]_vars

\* C18 witness: a failed call after a stored entry
C18_Witness ==
    /\ resp.op = "post_feedback"
    /\ resp.raised
    /\ resp.answer.status = 500
    /\ Len(ml_feedback) = 1

(***************************************************************************)
(* Attendance.                                                             *)
(***************************************************************************)
\* a mark call that got past the checks of the caller and of the identifier
MarkReached(r) ==
    /\ r.op = "mark_event_attendance"
    /\ r.outcome \in {"not_registered", "already_marked", "marked", "update_failed"}

SamePair(r1, r2) == r1.eventId = r2.eventId /\ r1.studentEmail = r2.studentEmail

\* C19: no (event, student) pair has two registration records; and a mark
\* that follows a successful mark of the same student with the same status
\* succeeds and leaves every record, flag and attendance time included, as it
\* was.
C19_SameStatusMarkIdempotent ==
    /\ [](\A r1, r2 \in registrations : SamePair(r1, r2) => r1 = r2)
    /\ [][ ( /\ resp.op = "mark_event_attendance"
             /\ resp.success
             /\ MarkReached(resp')
             /\ resp'.event_id = resp.event_id
             /\ resp'.student_email = resp.student_email
             /\ resp'.status = resp.status )
           => (resp'.success /\ registrations' = registrations) ]_vars

\* C19 witness: a student marked present is marked present again
C19_Witness ==
    /\ resp.op = "mark_event_attendance"
    /\ resp.outcome = "already_marked"
    /\ resp.status
    /\ \E r \in registrations :
          /\ r.eventId = resp.event_id
          /\ r.studentEmail = resp.student_email
          /\ r.isPresent
          /\ r.attendedAt = Num(1)
    /\ Cardinality(registrations) = 2

\* C20: after a successful mark the record's flag is the requested status,
\* and a flag changes, in either direction, only by a successful mark of
\* that student with the new value as its status.
C20_OppositeStatusOverwrites ==
    /\ []((resp.op = "mark_event_attendance" /\ resp.success) =>
            \E r \in registrations :
               /\ r.eventId = resp.event_id
               /\ r.studentEmail = resp.student_email
               /\ r.isPresent = resp.status)
    /\ [][ \A r1 \in registrations, r2 \in registrations' :
             (SamePair(r1, r2) /\ r2.isPresent # r1.isPresent) =>
                /\ resp'.op = "mark_event_attendance"
                /\ resp'.outcome = "marked"
                /\ resp'.event_id = r2.eventId
                /\ resp'.student_email = r2.studentEmail
                /\ resp'.status = r2.isPresent
                /\ r2.attendedAt # r1.attendedAt ]_vars

\* C20 witness: a student marked present and then marked absent
C20_Witness ==
    /\ resp.op = "mark_event_attendance"
    /\ resp.outcome = "marked"
    /\ ~resp.status
    /\ \E r \in registrations :
          /\ r.eventId = resp.event_id
          /\ r.studentEmail = resp.student_email
          /\ ~r.isPresent
          /\ r.attendedAt = Num(2)

(***************************************************************************)
(* Selection rounds.                                                       *)
(***************************************************************************)
RoundNumbers == {r.roundNumber : r \in RoundUploads}

\* C21: the status query returns, for every notice and round number, as many
\* records as the notice has rounds of that number that list the student:
\* one per such round, none for a round that does not list the student.
C21_OneRecordPerSelectedRound ==
    (resp.op = "get_student_placement_status" /\ resp.status = "ok") =>
       \A i \in 1..Len(placements), n \in RoundNumbers :
          Cardinality({k \in 1..Len(resp.selections) :
                          /\ resp.selections[k].placementId = placements[i].id
                          /\ resp.selections[k].roundNumber = n})
             = Cardinality({j \in 1..Len(placements[i].rounds) :
                              /\ placements[i].rounds[j].roundNumber = n
                              /\ \E x \in 1..Len(placements[i].rounds[j].selectedStudents) :
                                    placements[i].rounds[j].selectedStudents[x] = resp.email})

\* C21 witness: a student selected in round 1 and in round 2 of one notice,
\* which has a further round that does not list the student
C21_Witness ==
    /\ resp.op = "get_student_placement_status"
    /\ resp.status = "ok"
    /\ resp.email = "s1@kongu.edu"
    /\ Len(placements) >= 1
    /\ Len(placements[1].rounds) = 3
    /\ resp.selections = << [placementId |-> 1, roundNumber |-> 1],
                            [placementId |-> 1, roundNumber |-> 2] >>

(***************************************************************************)
(* Malformed stored values.                                                *)
(***************************************************************************)
MalformedGated(s) == s.profile.cgpa.k = "bad" \/ s.profile.arrears_history.k = "bad"

\* C22: a malformed stored CGPA or arrears value fails the gate that is
\* set and nothing more: the export leaves the student out of a gated
\* notice, and the student's own listing completes normally without any
\* notice whose gate the malformed value meets.
C22_MalformedGatedFailsClosed ==
    /\ ExportOk =>
          \A s \in resp.rows :
             /\ (resp.notice.minCgpa.k # "none") => s.profile.cgpa.k # "bad"
             /\ (resp.notice.maxArrears.k # "none") => s.profile.arrears_history.k # "bad"
    /\ (resp.op = "list_visible_placement_notices" /\ resp.status # "failure")
          => (MalformedGated(resp.student) =>
                /\ resp.status = "ok"
                /\ \A i \in 1..Len(resp.notices) :
                      LET doc == resp.notices[i].doc
                      IN  /\ (doc.minCgpa.k # "none") => resp.student.profile.cgpa.k # "bad"
                          /\ (doc.maxArrears.k # "none")
                                => resp.student.profile.arrears_history.k # "bad")

MalformedNonGated(s) == s.profile.year.k = "bad" \/ s.profile.resume_score.k = "bad"

\* C23: a malformed stored year or resume score never stops a ranking:
\* every ranking request of such a student that reaches the scorer is
\* answered normally, with one entry per opportunity scored.
C23_MalformedNonGatedFailsOpen ==
    (/\ resp.op \in {"list_visible_placement_notices", "realtime_opportunities"}
     /\ resp.status \in {"ok", "error"}
     /\ "student" \in DOMAIN resp
     /\ MalformedNonGated(resp.student))
       => /\ resp.status = "ok"
          /\ Len(resp.recommendations) = Len(resp.scored)

(***************************************************************************)
(* The feature vector and the reasons.                                     *)
(***************************************************************************)
\* a skill list as the set of its trimmed, lower-cased entries
NormSet(skills) == {Lower(Strip(skills[i])) : i \in 1..Len(skills)}

\* C24: skill_match is the share of the opportunity's normalised skills that
\* the student's normalised skills contain; it is 0 when either list is
\* empty, and it lies between 0 and 1.
C24_SkillMatchIsSharedFraction ==
    (resp.op = "skill_match") =>
       LET S == NormSet(resp.student_skills)
           O == NormSet(resp.opp_skills)
       IN  /\ resp.result.d > 0
           /\ 0 <= resp.result.n
           /\ resp.result.n <= resp.result.d
           /\ IF resp.student_skills = <<>> \/ resp.opp_skills = <<>>
              THEN resp.result.n = 0
              ELSE resp.result.n * Cardinality(O) = resp.result.d * Cardinality(S \cap O)

\* C24 witness: repeated, padded and upper-case entries count once, and two
\* of the opportunity's two distinct skills are matched
C24_Witness ==
    /\ resp.op = "skill_match"
    /\ resp.student_skills = <<SkillAPadded, SkillA, SkillC>>
    /\ resp.opp_skills = <<SkillA, SkillAPadded, SkillC>>
    /\ resp.result = [n |-> 1, d |-> 1]

BuiltFeatures == resp.op = "build_features" /\ ~resp.raised

\* C25: the second feature is 1 exactly when the two branches are the same
\* string once lower-cased, compared whole, and it is never anything but 0 or 1.
C25_DepartmentMatchIsWholeStringEquality ==
    BuiltFeatures =>
       /\ resp.features[2] \in {0, 1}
       /\ resp.features[2] = 1 <=>
             /\ Len(resp.student.branch) = Len(resp.opportunity.branch)
             /\ \A i \in 1..Len(resp.student.branch) :
                   LowerChar(resp.student.branch[i]) = LowerChar(resp.opportunity.branch[i])

\* C25 witness: branches that differ only in case match
C25_Witness ==
    /\ BuiltFeatures
    /\ resp.student.branch = DeptCS
    /\ resp.opportunity.branch = BranchLower
    /\ resp.features[2] = 1

\* the value of an optional number, or the given value when it is absent
ValueOr(field, absent) == IF field.k = "none" THEN absent ELSE field.v

\* C26: the third feature is 1 exactly when the student's year is at least
\* the opportunity's minimum year, an absent minimum year being 0; the vector
\* has four entries: skill match, department match, year eligibility and
\* resume score (in thousandths), in this order.
C26_YearEligibleAndVectorShape ==
    BuiltFeatures =>
       LET S == NormSet(resp.student.skills)
           O == NormSet(resp.opportunity.required_skills)
       IN  /\ Len(resp.features) = 4
           /\ resp.features[3] \in {0, 1}
           /\ resp.features[3] = 1 <=>
                 ValueOr(resp.student.year, 0) >= ValueOr(resp.opportunity.min_year, 0)
           /\ resp.features[1].n * Cardinality(O) = resp.features[1].d * Cardinality(S \cap O)
           /\ resp.features[2] = 1 <=> Lower(resp.student.branch) = Lower(resp.opportunity.branch)
           /\ resp.features[4] = ValueOr(resp.student.resume_score, 500)

\* C26 witness: with the year and the minimum year both absent the student
\* is eligible
C26_Witness ==
    /\ BuiltFeatures
    /\ resp.student.year = NoneV
    /\ resp.opportunity.min_year = NoneV
    /\ resp.features[3] = 1

\* the features of the opportunity a ranked entry was built from
FeaturesBehind(entry) ==
    LET i == CHOOSE i \in 1..Len(resp.opportunities) :
                resp.opportunities[i].id = entry.opportunity_id
    IN  build_features(resp.student, resp.opportunities[i])

\* C28: every entry of recommend's result has exactly two reasons, fixed by
\* its feature vector whatever the score: the skill reason when the skill
\* match is above 0.6 and the relevance reason otherwise, then the year
\* reason when the year feature is 1 and the growth reason otherwise.
C28_ReasonsFromFeaturesOnly ==
    (resp.op = "recommend") =>
       \A k \in 1..Len(resp.ranked) :
          LET f == FeaturesBehind(resp.ranked[k])
              why == resp.ranked[k].why_recommended
          IN  /\ Len(why) = 2
              /\ why[1] = IF 10 * f[1].n > 6 * f[1].d
                          THEN "High skill match" ELSE "Profile relevance"
              /\ why[2] = IF f[3] = 1 THEN "Eligible year" ELSE "Growth potential"

\* C28 witness: a skill match of exactly 0.6 is worded as relevance, by a
\* classifier that scores the entry above 0.6
C28_Witness ==
    /\ resp.op = "recommend"
    /\ resp.student.skills = <<SkillA, SkillC, SkillE>>
    /\ Len(resp.ranked) = 1
    /\ resp.opportunities[1].required_skills = FiveSkills
    /\ resp.ranked[1].score > 600
    /\ resp.ranked[1].why_recommended[1] = "Profile relevance"

\* C27: on the ranking endpoints every score is the classifier's output on
\* a feature vector whose fourth entry is the student's stored resume score,
\* or 0.5 when the profile holds none.
C27_ResumeScoreReachesScorer ==
    Ranked =>
       \A k \in 1..Len(resp.recommendations) :
          \E i \in 1..Len(CandidateData) :
             LET f == build_features(ScorerStudent, CandidateData[i])
                 g == [f EXCEPT ![4] = ValueOr(resp.student.profile.resume_score, 500)]
             IN  /\ CandidateData[i].id = resp.recommendations[k].opportunity_id
                 /\ resp.recommendations[k].score = Round3(ScoreOf(model, g))

\* C29: on both ranking endpoints every opportunity is scored with the
\* student's own department as its branch: the department feature of every
\* pair scored is 1, and every score is the classifier's output on a vector
\* whose second entry is 1, whatever departments the notice targets.
C29_DepartmentMatchAlwaysOne ==
    Ranked =>
       /\ Len(resp.recommendations) = Len(CandidateData)
       /\ \A i \in 1..Len(CandidateData) :
             build_features(ScorerStudent, CandidateData[i])[2] = 1
       /\ \A k \in 1..Len(resp.recommendations) :
             \E i \in 1..Len(CandidateData) :
                LET f == build_features(ScorerStudent, CandidateData[i])
                IN  /\ CandidateData[i].id = resp.recommendations[k].opportunity_id
                    /\ resp.recommendations[k].score =
                          Round3(ScoreOf(model, [f EXCEPT ![2] = 1]))

\* C29 witness: a listing that scores a notice whose first target is not the
\* student's department, under a classifier that weighs the department
C29_Witness ==
    /\ Ranked
    /\ resp.op = "list_visible_placement_notices"
    /\ ~model.raises
    /\ model.wDept > 0
    /\ \E k \in 1..Len(resp.notices) :
          /\ resp.notices[k].doc.allowedDepartmentsLower # <<>>
          /\ resp.notices[k].doc.allowedDepartmentsLower[1]
                # Lower(Strip(resp.student.department))

(***************************************************************************)
(* Attendance marks that must not land.                                    *)
(***************************************************************************)
RegisteredPairs(regs) == {<<r.eventId, r.studentEmail>> : r \in regs}

\* C30: a mark by somebody who does not manage the event, on an event that
\* does not exist, for an identifier that stands for nobody or for a student
\* without a registration reports failure and leaves every registration as
\* it was; and no mark adds or removes a registration.
C30_RefusedMarkChangesNothing ==
    [][ (resp'.op = "mark_event_attendance") =>
          LET noEvent == resp'.event_id \notin 1..Len(events)
              notOwner ==
                 /\ ~noEvent
                 /\ Lower(Strip(events[resp'.event_id].managerEmail))
                       # Lower(Strip(resp'.managerEmail))
              nobody == ~resp'.resolved
              unregistered ==
                 <<resp'.event_id, resp'.student_email>> \notin RegisteredPairs(registrations)
          IN  /\ (noEvent \/ notOwner \/ nobody \/ unregistered)
                    => (~resp'.success /\ registrations' = registrations)
              /\ RegisteredPairs(registrations') = RegisteredPairs(registrations)
              /\ Cardinality(registrations') = Cardinality(registrations) ]_vars

\* C30 witness: a manager of another event is refused a mark for a student
\* who is registered and not yet marked present
C30_Witness ==
    /\ resp.op = "mark_event_attendance"
    /\ resp.outcome = "not_allowed"
    /\ resp.status
    /\ \E r \in registrations :
          /\ r.eventId = resp.event_id
          /\ r.studentEmail = resp.student_email
          /\ ~r.isPresent

====
